---- MODULE Spec2Model ----
(***************************************************************************)
(* Model of the Telegram report bot of src/bot.py: the ConversationHandler *)
(* built in main(), its seven step handlers, the /cancelar fallback, the   *)
(* two Google collaborators (subir_foto_a_drive, guardar_reporte_en_sheet) *)
(* and the per-user context.user_data dictionary they share.               *)
(*                                                                         *)
(* The Application processes one update at a time (run_polling with the    *)
(* default concurrent_updates=False and blocking handlers), so every       *)
(* handler is one atomic action; SpecUsers also shows the handler in       *)
(* flight inside its blocking calls.  A handler can stop at any of its awaits  *)
(* (get_file, download_to_drive, reply_text raise on a transport error);   *)
(* the exception leaves the handler, the conversation state is not         *)
(* updated, and whatever the handler wrote to user_data before stays.      *)
(* The parameter `exc` of an action is the source line of the await that   *)
(* raises, or 0 when none does.  A reply_text that raises delivers no      *)
(* message.                                                                *)
(***************************************************************************)
EXTENDS Integers, Sequences, FiniteSets, TLC

VARIABLES
    conv,       \* ConversationHandler state per conversation key (chat, user)
    user_data,  \* context.user_data: one dict per user, shared by all chats
    update,     \* the last inbound update: its conversation key and its kind
    out,        \* the messages delivered while handling the last update
    calls,      \* the guardar_reporte_en_sheet invocations of the last update
    setBy,      \* history: per user and field, the key whose handler set it
    invoked,    \* history: per key, persistence was invoked in this conversation
    finals,     \* history: per key, terminal messages sent in this conversation
    errors,     \* the exceptions error_handler logged for the last update
    fs,         \* the files under /tmp
    rm,         \* the os.remove attempts made while handling the last update
    running,    \* the handler in flight inside a blocking call, if any
    odo         \* the odometer/distance variant of the controller (spec 4.1)

vars == <<conv, user_data, update, out, calls, setBy, invoked, finals,
          errors, fs, rm, running, odo>>

(* The variables of the bot of src/bot.py.                                 *)
botVars == <<conv, user_data, update, out, calls, setBy, invoked, finals,
             errors, fs, rm, running>>

----------------------------------------------------------------------------
(* Conversation states, src/bot.py:36, and ConversationHandler.END.        *)

TIPO_JORNADA == 0
NOMBRE == 1
PLACA == 2
KILOMETRAJE == 3
FOTO_PLACA == 4
FOTO_KILOMETRAJE == 5
FOTO_ESTADO == 6
END == -1

States == {TIPO_JORNADA, NOMBRE, PLACA, KILOMETRAJE, FOTO_PLACA,
           FOTO_KILOMETRAJE, FOTO_ESTADO}

(* Users and chats.  A conversation is keyed by (chat id, user id), while  *)
(* user_data is keyed by the user id alone.                                *)
Users == {"u1", "u2"}
Chats == {"c1", "c2"}
Keys == Chats \X Users

(* One user in one chat; the same user in two chats (a private chat and a  *)
(* group, say).                                                            *)
NoKey == <<"-", "-">>

KeysOneChat == { <<"c1", "u1">> }
KeysTwoChats == { <<"c1", "u1">>, <<"c2", "u1">> }

ChatOf(k) == k[1]
UserOf(k) == k[2]

----------------------------------------------------------------------------
(* Strings are sequences of characters.                                    *)

Inicio == <<"I", "n", "i", "c", "i", "o">>
Verde == <<"(verde)">>

Texts == { <<"(verde)">>, <<"I", "n", "i", "c", "i", "o">>, <<"1", "2", "0">> }
OneText == { <<"a", "1">> }

Times == {0}

Contains(sub, s) ==
    \E i \in 1..(Len(s) - Len(sub) + 1) : SubSeq(s, i, i + Len(sub) - 1) = sub

UpperChar(c) ==
    CASE c = "a" -> "A"
      [] c = "b" -> "B"
      [] c = "c" -> "C"
      [] c = "i" -> "I"
      [] c = "n" -> "N"
      [] c = "o" -> "O"
      [] OTHER -> c

upper(s) == [i \in 1..Len(s) |-> UpperChar(s[i])]

Digit(t) == IF t = 0 THEN "0" ELSE "1"

FmtArchivo == "%Y%m%d_%H%M%S"
FmtFecha == "%Y-%m-%d %H:%M:%S"

(* The clock reading t is a count of seconds after 2026-01-01 00:00:00.   *)
strftime(t, fmt) ==
    IF fmt = FmtArchivo
    THEN <<"20260101", "_", "00000", Digit(t)>>
    ELSE <<"2026-01-01", " ", "00:00:0", Digit(t)>>

----------------------------------------------------------------------------
(* Python dicts: functions whose domain is the set of keys present.        *)

EmptyDict == [x \in {} |-> <<>>]

Put(d, key, v) == [x \in (DOMAIN d) \cup {key} |-> IF x = key THEN v ELSE d[x]]

Fields == {"tipo_jornada", "nombre", "placa", "kilometraje",
           "link_foto_placa", "foto_placa_local",
           "link_foto_kilometraje", "foto_km_local",
           "link_foto_estado", "foto_estado_local", "fecha_hora"}

CamposFila == {"fecha_hora", "tipo_jornada", "nombre", "placa", "kilometraje",
               "link_foto_placa", "link_foto_kilometraje", "link_foto_estado"}

----------------------------------------------------------------------------
(* The messages of the bot, named by their first words.                    *)

MsgStart == "Hola"
MsgAyuda == "Comandos disponibles"
MsgSelecciona == "Selecciona el tipo de jornada:"
MsgNombre == "Por favor, escribe tu nombre completo:"
MsgPlaca == "Escribe la placa del vehiculo:"
MsgKilometraje == "Escribe el kilometraje actual:"
MsgFotoPlaca == "Envia una foto de la PLACA del vehiculo:"
MsgSubiendoPlaca == "Subiendo foto de placa a Drive..."
MsgFotoKm == "Foto de placa guardada. Ahora envia una foto del KILOMETRAJE:"
MsgSubiendoKm == "Subiendo foto de kilometraje a Drive..."
MsgFotoEstado == "Foto de kilometraje guardada. Por ultimo, envia una foto del ESTADO GENERAL de la moto:"
MsgSubiendoEstado == "Subiendo foto de estado a Drive..."
MsgGuardando == "Guardando reporte en Google Sheets..."
MsgExito == "Reporte completado exitosamente!"
MsgError == "Hubo un error al guardar el reporte. Por favor, intenta nuevamente con /reporte"
MsgCancelado == "Reporte cancelado. Usa /reporte para iniciar uno nuevo."

MsgTerminal == {MsgExito, MsgError, MsgCancelado}

----------------------------------------------------------------------------
(* The two Google collaborators.                                           *)

ErrorAlSubir == <<"Error al subir">>
webViewLink == <<"https://drive.google.com/file/d/id/view">>

(* Mutant: a failed upload yields an empty link instead of the sentinel.  *)
subir_foto_sin_centinela(ruta_foto, nombre_archivo, ok) ==
    IF ok THEN webViewLink ELSE <<>>

(* `ok` is FALSE when any Drive call of the try block raises.              *)
subir_foto_a_drive(ruta_foto, nombre_archivo, ok) ==
    IF ok THEN webViewLink ELSE ErrorAlSubir

(* The row handed to append_row; reading a key that is absent raises       *)
(* KeyError inside the try block.                                          *)
fila(datos) ==
    << datos["fecha_hora"], datos["tipo_jornada"], datos["nombre"], datos["placa"],
       datos["kilometraje"], datos["link_foto_placa"],
       datos["link_foto_kilometraje"], datos["link_foto_estado"] >>

(* `appendOk` is FALSE when obtener_sheet or append_row raises.            *)
guardar_reporte_en_sheet(datos, appendOk) ==
    IF CamposFila \subseteq DOMAIN datos THEN appendOk ELSE FALSE

nombre_archivo(prefijo, placa, t) ==
    <<prefijo>> \o placa \o <<"_">> \o strftime(t, FmtArchivo) \o <<".jpg">>

ruta_local(nombre) == <<"/tmp/">> \o nombre

----------------------------------------------------------------------------
(* Dispatch: the handlers registered in main().  /start and /ayuda are     *)
(* registered before the ConversationHandler and match in every state.     *)
(* The ConversationHandler (allow_reentry is left at its default, False)   *)
(* offers the entry point only to a key with no conversation, then the     *)
(* handler of the key's state, then the fallbacks.                         *)

TextStates == {TIPO_JORNADA, NOMBRE, PLACA, KILOMETRAJE}
PhotoStates == {FOTO_PLACA, FOTO_KILOMETRAJE, FOTO_ESTADO}

(* "/otro" stands for a command no handler is registered for.              *)
Kinds == {"/start", "/ayuda", "/reporte", "/cancelar", "/otro", "text", "photo"}

StateHandler(s) ==
    CASE s = TIPO_JORNADA -> "tipo_jornada"
      [] s = NOMBRE -> "nombre"
      [] s = PLACA -> "placa"
      [] s = KILOMETRAJE -> "kilometraje"
      [] s = FOTO_PLACA -> "foto_placa"
      [] s = FOTO_KILOMETRAJE -> "foto_kilometraje"
      [] s = FOTO_ESTADO -> "foto_estado"

(* Mutant: the ConversationHandler is built with allow_reentry=True.       *)
HandlerConReentrada(s, kind) ==
    IF kind = "/start" THEN "start"
    ELSE IF kind = "/ayuda" THEN "ayuda"
    ELSE IF kind = "/reporte" THEN "iniciar_reporte"
    ELSE IF s = END THEN "none"
    ELSE IF s \in TextStates /\ kind = "text" THEN StateHandler(s)
    ELSE IF s \in PhotoStates /\ kind = "photo" THEN StateHandler(s)
    ELSE IF kind = "/cancelar" THEN "cancelar"
    ELSE "none"

Handler(s, kind) ==
    IF kind = "/start" THEN "start"
    ELSE IF kind = "/ayuda" THEN "ayuda"
    ELSE IF s = END THEN (IF kind = "/reporte" THEN "iniciar_reporte" ELSE "none")
    ELSE IF s \in TextStates /\ kind = "text" THEN StateHandler(s)
    ELSE IF s \in PhotoStates /\ kind = "photo" THEN StateHandler(s)
    ELSE IF kind = "/cancelar" THEN "cancelar"
    ELSE "none"

(* No handler is inside a blocking call.                                   *)
Idle == [key |-> NoKey, call |-> "none"]

(* The Application takes an update when no handler is in flight.           *)
Received(k, kind) == running = Idle /\ update' = [key |-> k, kind |-> kind]

(* The update of the handler that is in flight, or that runs in one step.  *)
InFlight(k, kind) == running.key \in {NoKey, k} /\ update' = [key |-> k, kind |-> kind]

----------------------------------------------------------------------------
OdoInit == [state |-> "COMPLETE", draft |-> EmptyDict, appended |-> <<>>]

Init ==
    /\ conv = [k \in Keys |-> END]
    /\ user_data = [u \in Users |-> EmptyDict]
    /\ update = [key |-> NoKey, kind |-> "none"]
    /\ out = <<>>
    /\ calls = <<>>
    /\ setBy = [u \in Users |-> EmptyDict]
    /\ invoked = [k \in Keys |-> FALSE]
    /\ finals = [k \in Keys |-> <<>>]
    /\ errors = <<>>
    /\ fs = {}
    /\ rm = <<>>
    /\ running = Idle
    /\ odo = OdoInit

----------------------------------------------------------------------------
(* The handlers.                                                           *)

(* error_handler, the only error handler of the Application: what it logs  *)
(* and what it sends to the user for the exception of a handler.           *)
error_handler(error) == [logged |-> <<error>>, sent |-> <<>>]

(* The handler returned after delivering msgs: no handler is in flight.    *)
Done(msgs) == out' = msgs /\ errors' = <<>> /\ running' = Idle

(* The exception raised at a source line: KeyError by the lines that read  *)
(* user_data['placa'], a transport error by an await.                      *)
Excepcion(line) == IF line \in {222, 245, 267} THEN "KeyError" ELSE "TelegramError"

(* The handler delivered msgs and then raised at the source line `error`;  *)
(* the Application hands the exception to error_handler.                   *)
Failed(msgs, error) ==
    /\ out' = msgs \o error_handler(Excepcion(error)).sent
    /\ errors' = error_handler(Excepcion(error)).logged
    /\ running' = Idle

start(k, exc) ==
    /\ Handler(conv[k], "/start") = "start"
    /\ Received(k, "/start")
    /\ IF exc = 0 THEN Done(<<MsgStart>>) ELSE Failed(<<>>, exc)
    /\ calls' = <<>>
    /\ rm' = <<>>
    /\ UNCHANGED <<conv, user_data, setBy, invoked, finals, fs, odo>>

ayuda(k, exc) ==
    /\ Handler(conv[k], "/ayuda") = "ayuda"
    /\ Received(k, "/ayuda")
    /\ IF exc = 0 THEN Done(<<MsgAyuda>>) ELSE Failed(<<>>, exc)
    /\ calls' = <<>>
    /\ rm' = <<>>
    /\ UNCHANGED <<conv, user_data, setBy, invoked, finals, fs, odo>>

(* Mutant: clear() empties a dict that all users share.                    *)
iniciar_reporte_global(k, exc) ==
    /\ Handler(conv[k], "/reporte") = "iniciar_reporte"
    /\ Received(k, "/reporte")
    /\ user_data' = [u \in Users |-> EmptyDict]
    /\ setBy' = [u \in Users |-> EmptyDict]
    /\ calls' = <<>>
    /\ rm' = <<>>
    /\ IF exc = 0
       THEN /\ conv' = [conv EXCEPT ![k] = TIPO_JORNADA]
            /\ Done(<<MsgSelecciona>>)
            /\ invoked' = [invoked EXCEPT ![k] = FALSE]
            /\ finals' = [finals EXCEPT ![k] = <<>>]
       ELSE /\ Failed(<<>>, exc)
            /\ UNCHANGED <<conv, invoked, finals>>
    /\ UNCHANGED <<fs, odo>>

iniciar_reporte(k, exc) ==
    /\ Handler(conv[k], "/reporte") = "iniciar_reporte"
    /\ Received(k, "/reporte")
    /\ user_data' = [user_data EXCEPT ![UserOf(k)] = EmptyDict]
    /\ setBy' = [setBy EXCEPT ![UserOf(k)] = EmptyDict]
    /\ calls' = <<>>
    /\ rm' = <<>>
    /\ IF exc = 0
       THEN /\ conv' = [conv EXCEPT ![k] = TIPO_JORNADA]
            /\ Done(<<MsgSelecciona>>)
            /\ invoked' = [invoked EXCEPT ![k] = FALSE]
            /\ finals' = [finals EXCEPT ![k] = <<>>]
       ELSE /\ Failed(<<>>, exc)
            /\ UNCHANGED <<conv, invoked, finals>>
    /\ UNCHANGED <<fs, odo>>

(* The common shape of the four text handlers: store the value, reply      *)
(* with the next prompt, return the next state.                            *)
TextStep(k, campo, valor, msg, siguiente, exc) ==
    /\ Received(k, "text")
    /\ user_data' = [user_data EXCEPT ![UserOf(k)] = Put(@, campo, valor)]
    /\ setBy' = [setBy EXCEPT ![UserOf(k)] = Put(@, campo, k)]
    /\ calls' = <<>>
    /\ rm' = <<>>
    /\ IF exc = 0
       THEN /\ conv' = [conv EXCEPT ![k] = siguiente]
            /\ Done(<<msg>>)
       ELSE /\ Failed(<<>>, exc)
            /\ UNCHANGED conv
    /\ UNCHANGED <<invoked, finals, fs, odo>>

InicioDeJornada == <<"Inicio de Jornada">>
FinDeJornada == <<"Fin de Jornada">>

TipoDe(text) ==
    IF Contains(Verde, text) \/ Contains(Inicio, text)
    THEN InicioDeJornada
    ELSE FinDeJornada

tipo_jornada(k, text, exc) ==
    /\ Handler(conv[k], "text") = "tipo_jornada"
    /\ TextStep(k, "tipo_jornada", TipoDe(text), MsgNombre, NOMBRE, exc)

nombre(k, text, exc) ==
    /\ Handler(conv[k], "text") = "nombre"
    /\ TextStep(k, "nombre", text, MsgPlaca, PLACA, exc)

(* Mutant: the plate is stored as typed.                                   *)
placa_sin_upper(k, text, exc) ==
    /\ Handler(conv[k], "text") = "placa"
    /\ TextStep(k, "placa", text, MsgKilometraje, KILOMETRAJE, exc)

placa(k, text, exc) ==
    /\ Handler(conv[k], "text") = "placa"
    /\ TextStep(k, "placa", upper(text), MsgKilometraje, KILOMETRAJE, exc)

kilometraje(k, text, exc) ==
    /\ Handler(conv[k], "text") = "kilometraje"
    /\ TextStep(k, "kilometraje", text, MsgFotoPlaca, FOTO_PLACA, exc)

(* The start of the three photo handlers, up to the upload: get_file       *)
(* (pre[1]), the file name, which reads user_data['placa'] and raises      *)
(* KeyError on the next line when it is absent, download_to_drive (pre[2]), *)
(* which writes the file under /tmp, and the "Subiendo" reply (pre[3]).    *)
(* The result is 0 when the upload is reached, or the line that raised.    *)
ErrorAntes(d, exc, pre) ==
    IF exc = pre[1] THEN exc
    ELSE IF "placa" \notin DOMAIN d THEN pre[1] + 1
    ELSE IF exc \in {pre[2], pre[3]} THEN exc
    ELSE 0

(* The common shape of foto_placa and foto_kilometraje; `post` is the      *)
(* closing reply.                                                          *)
FotoStep(k, prefijo, campoLink, campoLocal, t, ok, exc, pre, post, msgSubiendo, msgSiguiente, siguiente) ==
    LET u == UserOf(k)
        d == user_data[u]
        antes == ErrorAntes(d, exc, pre)
    IN
    /\ InFlight(k, "photo")
    /\ calls' = <<>>
    /\ rm' = <<>>
    /\ IF antes # 0
       THEN /\ Failed(<<>>, antes)
            /\ fs' = IF antes = pre[3]
                     THEN fs \cup {ruta_local(nombre_archivo(prefijo, d["placa"], t))}
                     ELSE fs
            /\ UNCHANGED <<conv, user_data, setBy>>
       ELSE LET archivo == nombre_archivo(prefijo, d["placa"], t)
                ruta == ruta_local(archivo)
                link == subir_foto_a_drive(ruta, archivo, ok)
            IN
            /\ fs' = fs \cup {ruta}
            /\ user_data' = [user_data EXCEPT
                               ![u] = Put(Put(@, campoLink, link), campoLocal, ruta)]
            /\ setBy' = [setBy EXCEPT ![u] = Put(Put(@, campoLink, k), campoLocal, k)]
            /\ IF exc = post
               THEN /\ Failed(<<msgSubiendo>>, exc)
                    /\ UNCHANGED conv
               ELSE /\ Done(<<msgSubiendo, msgSiguiente>>)
                    /\ conv' = [conv EXCEPT ![k] = siguiente]
    /\ UNCHANGED <<invoked, finals, odo>>

foto_placa(k, t, ok, exc) ==
    /\ Handler(conv[k], "photo") = "foto_placa"
    /\ FotoStep(k, "placa_", "link_foto_placa", "foto_placa_local", t, ok, exc,
                <<221, 224, 226>>, 233, MsgSubiendoPlaca, MsgFotoKm, FOTO_KILOMETRAJE)

foto_kilometraje(k, t, ok, exc) ==
    /\ Handler(conv[k], "photo") = "foto_kilometraje"
    /\ FotoStep(k, "km_", "link_foto_kilometraje", "foto_km_local", t, ok, exc,
                <<244, 247, 249>>, 255, MsgSubiendoKm, MsgFotoEstado, FOTO_ESTADO)

(* The cleanup loop of foto_estado: os.remove on the path held under each  *)
(* of the three keys that is in the dict, in this order.  os.remove        *)
(* raises when the file is absent or when the removal fails (the keys in   *)
(* `falla`); the bare except swallows it.                                  *)
ClavesLocales == <<"foto_placa_local", "foto_km_local", "foto_estado_local">>

(* Mutant: an os.remove that raises is not caught and leaves the loop.     *)
RECURSIVE LimpiarSinExcept(_, _, _, _)
LimpiarSinExcept(d, archivos, falla, i) ==
    IF i > Len(ClavesLocales) THEN [fs |-> archivos, rm |-> <<>>]
    ELSE LET key == ClavesLocales[i] IN
         IF key \notin DOMAIN d THEN LimpiarSinExcept(d, archivos, falla, i + 1)
         ELSE LET borrado == d[key] \in archivos /\ key \notin falla IN
              IF ~borrado
              THEN [fs |-> archivos, rm |-> <<[path |-> d[key], ok |-> FALSE]>>]
              ELSE LET resto == LimpiarSinExcept(d, archivos \ {d[key]}, falla, i + 1)
                   IN [fs |-> resto.fs,
                       rm |-> <<[path |-> d[key], ok |-> TRUE]>> \o resto.rm]

RECURSIVE Limpiar(_, _, _, _)
Limpiar(d, archivos, falla, i) ==
    IF i > Len(ClavesLocales) THEN [fs |-> archivos, rm |-> <<>>]
    ELSE LET key == ClavesLocales[i] IN
         IF key \notin DOMAIN d THEN Limpiar(d, archivos, falla, i + 1)
         ELSE LET borrado == d[key] \in archivos /\ key \notin falla
                  resto == Limpiar(d, IF borrado THEN archivos \ {d[key]} ELSE archivos,
                                   falla, i + 1)
              IN [fs |-> resto.fs,
                  rm |-> <<[path |-> d[key], ok |-> borrado]>> \o resto.rm]

(* foto_estado: the last photo, then the completion of the report.  t1 is  *)
(* the clock read for the file name, t2 the one read for fecha_hora.       *)
foto_estado(k, t1, t2, ok, appendOk, falla, exc) ==
    LET u == UserOf(k)
        d == user_data[u]
        antes == ErrorAntes(d, exc, <<266, 269, 271>>)
    IN
    /\ Handler(conv[k], "photo") = "foto_estado"
    /\ InFlight(k, "photo")
    /\ IF antes # 0
       THEN /\ Failed(<<>>, antes)
            /\ fs' = IF antes = 271
                     THEN fs \cup {ruta_local(nombre_archivo("estado_", d["placa"], t1))}
                     ELSE fs
            /\ calls' = <<>>
            /\ rm' = <<>>
            /\ UNCHANGED <<conv, user_data, setBy, invoked, finals>>
       ELSE LET archivo == nombre_archivo("estado_", d["placa"], t1)
                ruta == ruta_local(archivo)
                link == subir_foto_a_drive(ruta, archivo, ok)
                d1 == Put(Put(Put(d, "link_foto_estado", link),
                              "foto_estado_local", ruta),
                          "fecha_hora", strftime(t2, FmtFecha))
                exito == guardar_reporte_en_sheet(d1, appendOk)
                limpio == Limpiar(d1, fs \cup {ruta}, falla, 1)
            IN
            /\ user_data' = [user_data EXCEPT ![u] = d1]
            /\ setBy' = [setBy EXCEPT
                           ![u] = Put(Put(Put(@, "link_foto_estado", k),
                                          "foto_estado_local", k),
                                      "fecha_hora", k)]
            /\ IF exc = 281
               THEN /\ Failed(<<MsgSubiendoEstado>>, exc)
                    /\ calls' = <<>>
                    /\ rm' = <<>>
                    /\ fs' = fs \cup {ruta}
                    /\ UNCHANGED <<conv, invoked, finals>>
               ELSE /\ calls' = << [key |-> k, datos |-> d1, exito |-> exito] >>
                    /\ invoked' = [invoked EXCEPT ![k] = TRUE]
                    /\ fs' = limpio.fs
                    /\ rm' = limpio.rm
                    /\ IF (exito /\ exc = 294) \/ (~exito /\ exc = 306)
                       THEN /\ Failed(<<MsgSubiendoEstado, MsgGuardando>>, exc)
                            /\ UNCHANGED <<conv, finals>>
                       ELSE LET msg == IF exito THEN MsgExito ELSE MsgError IN
                            /\ Done(<<MsgSubiendoEstado, MsgGuardando, msg>>)
                            /\ conv' = [conv EXCEPT ![k] = END]
                            /\ finals' = [finals EXCEPT ![k] = Append(@, msg)]
    /\ UNCHANGED odo

(* Mutant: /cancelar ends the conversation without acknowledging it.      *)
cancelar_sin_mensaje(k, exc) ==
    /\ Handler(conv[k], "/cancelar") = "cancelar"
    /\ Received(k, "/cancelar")
    /\ calls' = <<>>
    /\ rm' = <<>>
    /\ Done(<<>>)
    /\ conv' = [conv EXCEPT ![k] = END]
    /\ UNCHANGED <<user_data, setBy, invoked, finals, fs, odo>>

cancelar(k, exc) ==
    /\ Handler(conv[k], "/cancelar") = "cancelar"
    /\ Received(k, "/cancelar")
    /\ calls' = <<>>
    /\ rm' = <<>>
    /\ IF exc = 0
       THEN /\ Done(<<MsgCancelado>>)
            /\ conv' = [conv EXCEPT ![k] = END]
            /\ finals' = [finals EXCEPT ![k] = Append(@, MsgCancelado)]
       ELSE /\ Failed(<<>>, exc)
            /\ UNCHANGED <<conv, finals>>
    /\ UNCHANGED <<user_data, setBy, invoked, fs, odo>>

(* An update no registered handler accepts: nothing runs.                  *)
Unhandled(k, kind) ==
    /\ Handler(conv[k], kind) = "none"
    /\ Received(k, kind)
    /\ Done(<<>>)
    /\ calls' = <<>>
    /\ rm' = <<>>
    /\ UNCHANGED <<conv, user_data, setBy, invoked, finals, fs, odo>>

----------------------------------------------------------------------------
(* One update is dispatched to its handler.  T gives the texts each key    *)
(* sends at each text step, C the clock readings, UP the outcomes of the Drive upload, RM    *)
(* the sets of local files whose removal fails, X the awaits that may      *)
(* raise (0: none).                                                        *)

(* The handlers that make no blocking call.                                *)
SinBloqueo(k, T, X) ==
    \/ \E exc \in {0, 146} \cap X : start(k, exc)
    \/ \E exc \in {0, 323} \cap X : ayuda(k, exc)
    \/ \E exc \in {0, 162} \cap X : iniciar_reporte(k, exc)
    \/ \E text \in T[k].tipo_jornada, exc \in {0, 178} \cap X : tipo_jornada(k, text, exc)
    \/ \E text \in T[k].nombre, exc \in {0, 189} \cap X : nombre(k, text, exc)
    \/ \E text \in T[k].placa, exc \in {0, 199} \cap X : placa(k, text, exc)
    \/ \E text \in T[k].kilometraje, exc \in {0, 209} \cap X : kilometraje(k, text, exc)
    \/ \E exc \in {0, 315} \cap X : cancelar(k, exc)
    \/ \E kind \in Kinds : Unhandled(k, kind)

(* The photo handlers, which call subir_foto_a_drive and, the last one,    *)
(* guardar_reporte_en_sheet: synchronous calls made on the event loop.     *)
ConBloqueo(k, C, UP, RM, X) ==
    \/ \E t \in C, ok \in UP, exc \in {0, 221, 224, 226, 233} \cap X :
          foto_placa(k, t, ok, exc)
    \/ \E t \in C, ok \in UP, exc \in {0, 244, 247, 249, 255} \cap X :
          foto_kilometraje(k, t, ok, exc)
    \/ \E t1 \in C, t2 \in C, ok \in UP, appendOk \in BOOLEAN, falla \in RM,
          exc \in {0, 266, 269, 271, 281, 294, 306} \cap X :
          foto_estado(k, t1, t2, ok, appendOk, falla, exc)

(* Handlers taken as atomic steps: no handler is ever in flight.           *)
NextOn(K, T, C, UP, RM, X) ==
    \E k \in K : SinBloqueo(k, T, X) \/ ConBloqueo(k, C, UP, RM, X)

(* The awaits of the handlers, by source line.                             *)
Awaits == {146, 162, 178, 189, 199, 209, 221, 224, 226, 233, 244, 247, 249, 255,
           266, 269, 271, 281, 294, 306, 315, 323}

(* The texts sent at each step: the three kinds of answer at TIPO_JORNADA, *)
(* one name, one plate with lower-case letters, a numeric and a            *)
(* non-numeric odometer reading.                                           *)
Textos == [tipo_jornada |-> Texts, nombre |-> OneText,
           placa |-> {Inicio}, kilometraje |-> {Inicio, <<"1", "2", "0">>}]

UnTexto == [tipo_jornada |-> OneText, nombre |-> OneText,
            placa |-> OneText, kilometraje |-> OneText]

(* One user in one chat: every upload outcome and raising await.           *)
Next == NextOn(KeysOneChat, [k \in Keys |-> Textos], Times, BOOLEAN, {{}}, {0} \cup Awaits)

Spec == Init /\ [][Next]_vars

(* One user in two chats, with one text, uploads that succeed and no       *)
(* raising await.                                                          *)
NextChats == NextOn(KeysTwoChats, [k \in Keys |-> UnTexto], Times, {TRUE}, {{}}, {0})

SpecChats == Init /\ [][NextChats]_vars

(* One user in one chat, with several plates: lower-case letters, upper-   *)
(* case letters, digits and other characters.                              *)
PlacaTexts == Texts \cup OneText

NextPlacas == NextOn(KeysOneChat, [k \in Keys |-> [UnTexto EXCEPT !.placa = PlacaTexts]],
                     Times, {TRUE}, {{}}, {0})

SpecPlacas == Init /\ [][NextPlacas]_vars

(* One user in one chat, with one text and no raising await, and with      *)
(* every combination of local files whose removal fails.                   *)
NextFiles == NextOn(KeysOneChat, [k \in Keys |-> UnTexto], Times, BOOLEAN,
                    SUBSET {"foto_placa_local", "foto_km_local", "foto_estado_local"}, {0})

SpecFiles == Init /\ [][NextFiles]_vars

(* Two users, each in a private chat, with the position of the handler     *)
(* inside its blocking calls.  subir_foto_a_drive and                      *)
(* guardar_reporte_en_sheet are plain functions called from the coroutine  *)
(* (no await, no executor), on the one thread of the event loop, and the   *)
(* Application (built without concurrent_updates) takes the next update    *)
(* only when the handler of the previous one has returned.  What a handler *)
(* did is accounted for when it returns.                                   *)
KeysTwoUsers == { <<"c1", "u1">>, <<"c2", "u2">> }

TextoDe(k) == IF UserOf(k) = "u1" THEN <<"a", "1">> ELSE <<"b", "2">>

Propios == [k \in Keys |-> [tipo_jornada |-> {TextoDe(k)}, nombre |-> {TextoDe(k)},
                            placa |-> {TextoDe(k)}, kilometraje |-> {TextoDe(k)}]]

(* A photo handler starts and enters subir_foto_a_drive.                   *)
EntraSubir(k) ==
    /\ running = Idle
    /\ Handler(conv[k], "photo") \in {"foto_placa", "foto_kilometraje", "foto_estado"}
    /\ "placa" \in DOMAIN user_data[UserOf(k)]
    /\ running' = [key |-> k, call |-> "subir_foto_a_drive"]
    /\ update' = [key |-> k, kind |-> "photo"]
    /\ out' = <<>>
    /\ errors' = <<>>
    /\ calls' = <<>>
    /\ rm' = <<>>
    /\ UNCHANGED <<conv, user_data, setBy, invoked, finals, fs, odo>>

(* foto_estado leaves subir_foto_a_drive and enters                        *)
(* guardar_reporte_en_sheet.                                               *)
EntraGuardar(k) ==
    /\ running = [key |-> k, call |-> "subir_foto_a_drive"]
    /\ Handler(conv[k], "photo") = "foto_estado"
    /\ running' = [key |-> k, call |-> "guardar_reporte_en_sheet"]
    /\ UNCHANGED <<conv, user_data, update, out, calls, setBy, invoked, finals,
                   errors, fs, rm, odo>>

(* The handler in flight leaves its last blocking call and returns.        *)
Retorna(k, C, UP, RM) ==
    /\ running.key = k
    /\ \/ /\ running.call = "subir_foto_a_drive"
          /\ \E t \in C, ok \in UP :
                foto_placa(k, t, ok, 0) \/ foto_kilometraje(k, t, ok, 0)
       \/ /\ running.call = "guardar_reporte_en_sheet"
          /\ \E t1 \in C, t2 \in C, ok \in UP, appendOk \in BOOLEAN, falla \in RM :
                foto_estado(k, t1, t2, ok, appendOk, falla, 0)

(* Application.process_update for an update of key k.                      *)
process_update(k) ==
    \/ SinBloqueo(k, Propios, {0})
    \/ EntraSubir(k)
    \/ EntraGuardar(k)
    \/ Retorna(k, Times, {TRUE}, {{}})

NextUsers == \E k \in KeysTwoUsers : process_update(k)

SpecUsers == Init /\ [][NextUsers]_vars

----------------------------------------------------------------------------
(* The odometer variant of the controller, as spec.md sections 3, 4.1 and  *)
(* 7 describe it: DRIVER_NAME -> PLATE -> ODOMETER_INITIAL ->              *)
(* ODOMETER_FINAL -> COMMENTS -> COMPLETE.  The two odometer steps reject  *)
(* text that does not parse as a decimal number, and the final one         *)
(* rejects a reading below the initial one.  Odometer values are exact     *)
(* decimals, held as integers in units of 10^-OdoMaxLen.                   *)

OdoMaxLen == 3

OdoAlphabet == {"1", "2", ",", "."}

OdoTexts == UNION { [1..n -> OdoAlphabet] : n \in 1..OdoMaxLen }

Digits == {"0", "1", "2", "3", "4", "5", "6", "7", "8", "9"}

DigitValue(c) ==
    CASE c = "0" -> 0 [] c = "1" -> 1 [] c = "2" -> 2 [] c = "3" -> 3 [] c = "4" -> 4
      [] c = "5" -> 5 [] c = "6" -> 6 [] c = "7" -> 7 [] c = "8" -> 8 [] c = "9" -> 9

RECURSIVE Pow10(_)
Pow10(n) == IF n = 0 THEN 1 ELSE 10 * Pow10(n - 1)

(* Grouping separators are stripped before the parse.                      *)
StripGrouping(s) == SelectSeq(s, LAMBDA c : c # ",")

(* A decimal number: digits with at most one decimal point.                *)
EsDecimal(s) ==
    /\ \E i \in 1..Len(s) : s[i] \in Digits
    /\ \A i \in 1..Len(s) : s[i] \in Digits \cup {"."}
    /\ Cardinality({i \in 1..Len(s) : s[i] = "."}) <= 1

RECURSIVE DigitsValue(_)
DigitsValue(s) ==
    IF s = <<>> THEN 0
    ELSE 10 * DigitsValue(SubSeq(s, 1, Len(s) - 1)) + DigitValue(s[Len(s)])

(* The value of a decimal text, in units of 10^-OdoMaxLen.                 *)
DecimalValue(s) ==
    LET dots == {i \in 1..Len(s) : s[i] = "."}
        p == IF dots = {} THEN Len(s) + 1 ELSE CHOOSE i \in dots : TRUE
        entera == SubSeq(s, 1, p - 1)
        fraccion == SubSeq(s, p + 1, Len(s))
    IN DigitsValue(entera) * Pow10(OdoMaxLen)
         + DigitsValue(fraccion) * Pow10(OdoMaxLen - Len(fraccion))

OdoParses(text) == EsDecimal(StripGrouping(text))
OdoParse(text) == DecimalValue(StripGrouping(text))

(* Mutant: the operands of the subtraction are swapped.                   *)
OdoDistanceSwapped(inicial, final) == inicial - final

OdoDistance(inicial, final) == final - inicial

OdoGoto(st, d) == odo' = [state |-> st, draft |-> d, appended |-> <<>>]

OdoStartCommand ==
    /\ OdoGoto("DRIVER_NAME", EmptyDict)
    /\ UNCHANGED botVars

OdoDriverName(text) ==
    /\ odo.state = "DRIVER_NAME"
    /\ OdoGoto("PLATE", Put(odo.draft, "driverName", text))
    /\ UNCHANGED botVars

OdoPlate(text) ==
    /\ odo.state = "PLATE"
    /\ OdoGoto("ODOMETER_INITIAL", Put(odo.draft, "plate", upper(text)))
    /\ UNCHANGED botVars

OdoInitial(text) ==
    /\ odo.state = "ODOMETER_INITIAL"
    /\ IF OdoParses(text)
       THEN OdoGoto("ODOMETER_FINAL", Put(odo.draft, "odometerInitial", OdoParse(text)))
       ELSE OdoGoto("ODOMETER_INITIAL", odo.draft)
    /\ UNCHANGED botVars

OdoFinal(text) ==
    /\ odo.state = "ODOMETER_FINAL"
    /\ IF ~OdoParses(text)
       THEN OdoGoto("ODOMETER_FINAL", odo.draft)
       ELSE LET final == OdoParse(text)
                distancia == OdoDistance(odo.draft["odometerInitial"], final)
            IN IF distancia < 0
               THEN OdoGoto("ODOMETER_FINAL", odo.draft)
               ELSE OdoGoto("COMMENTS",
                            Put(Put(odo.draft, "odometerFinal", final),
                                "distanceTraveled", distancia))
    /\ UNCHANGED botVars

(* Completion: the timestamp is stamped, the record is handed to the       *)
(* persistence collaborator once, and the draft is discarded either way.   *)
OdoComments(text, t, appendOk) ==
    /\ odo.state = "COMMENTS"
    /\ LET registro == Put(Put(odo.draft, "comments", text),
                           "timestamp", strftime(t, FmtFecha))
       IN odo' = [state |-> "COMPLETE", draft |-> EmptyDict,
                  appended |-> IF appendOk THEN <<registro>> ELSE <<>>]
    /\ UNCHANGED botVars

OdoCancelCommand ==
    /\ odo.state # "COMPLETE"
    /\ OdoGoto("COMPLETE", EmptyDict)
    /\ UNCHANGED botVars

NextOdo ==
    \/ OdoStartCommand
    \/ \E text \in OneText : OdoDriverName(text)
    \/ \E text \in OneText : OdoPlate(text)
    \/ \E text \in OdoTexts : OdoInitial(text)
    \/ \E text \in OdoTexts : OdoFinal(text)
    \/ \E text \in OneText, t \in Times, appendOk \in BOOLEAN : OdoComments(text, t, appendOk)
    \/ OdoCancelCommand

SpecOdo == Init /\ [][NextOdo]_vars

----------------------------------------------------------------------------
(* Vocabulary of the properties.                                           *)

Draft(k) == user_data[UserOf(k)]

(* The update just processed came from key k and was of this kind.         *)
ReceivedFrom(k, kind) == update = [key |-> k, kind |-> kind]

(* guardar_reporte_en_sheet was invoked for key k while handling the       *)
(* update just processed.                                                  *)
InvokedFor(k) == calls # <<>> /\ calls[1].key = k

(* The fields the steps set, in the order of the steps.                    *)
StepFields == <<"tipo_jornada", "nombre", "placa", "kilometraje",
                "link_foto_placa", "link_foto_kilometraje", "link_foto_estado">>

InOrder(d) ==
    \A i \in 1..Len(StepFields) :
        StepFields[i] \in DOMAIN d =>
            \A j \in 1..(i - 1) : StepFields[j] \in DOMAIN d

----------------------------------------------------------------------------
(* C1 - Completion exclusivity: guardar_reporte_en_sheet is invoked at     *)
(* most once per conversation started by /reporte, whatever the events     *)
(* (handler exceptions included), and when it is invoked the draft holds   *)
(* every field of the row.                                                 *)
C1_CompletionExclusivity ==
    [][ \A k \in Keys :
          InvokedFor(k)' =>
              /\ ~invoked[k]
              /\ CamposFila \subseteq DOMAIN calls'[1].datos ]_vars

(* C2 - Cancellation: when cancelar handles /cancelar in a non-terminal    *)
(* state the conversation ends, the user's draft holds no field            *)
(* afterwards and no persistence call is made.                             *)
C2_CancelDiscardsDraft ==
    [][ \A k \in Keys :
          (conv[k] \in States /\ cancelar(k, 0)) =>
              /\ conv'[k] = END
              /\ DOMAIN Draft(k)' = {}
              /\ calls' = <<>> ]_vars

(* C3 - Reset on restart: a /reporte received while the conversation is    *)
(* in one of the seven non-terminal states empties the draft and puts the  *)
(* conversation back at TIPO_JORNADA.                                      *)
C3_ResetOnRestart ==
    [][ \A k \in Keys :
          (conv[k] \in States /\ ReceivedFrom(k, "/reporte")') =>
              /\ DOMAIN Draft(k)' = {}
              /\ conv'[k] = TIPO_JORNADA ]_vars

(* C4 - No leak between conversations: a conversation entered by /reporte  *)
(* starts with an empty draft, and every field of a persisted row was set  *)
(* by the conversation that persists it.                                   *)
C4_NoLeak ==
    [][ \A k \in Keys :
          /\ iniciar_reporte(k, 0) => DOMAIN Draft(k)' = {}
          /\ (InvokedFor(k)' /\ calls'[1].exito) =>
                \A f \in CamposFila : setBy'[UserOf(k)][f] = k ]_vars

(* C5 - Ordering: the state of a conversation only moves one step along    *)
(* the chain TIPO_JORNADA .. FOTO_ESTADO -> END (or to END by /cancelar,   *)
(* or from END to TIPO_JORNADA by /reporte), and in every reachable state  *)
(* a step's field is in the draft only if the fields of all preceding      *)
(* steps are.                                                              *)
Siguiente(s) == IF s = FOTO_ESTADO THEN END ELSE s + 1

C5_Ordering ==
    /\ [](\A u \in Users : InOrder(user_data[u]))
    /\ [][ \A k \in Keys :
             conv'[k] # conv[k] =>
                 \/ conv[k] \in States /\ conv'[k] = Siguiente(conv[k])
                 \/ conv[k] \in States /\ conv'[k] = END
                 \/ conv[k] = END /\ conv'[k] = TIPO_JORNADA ]_vars

(* C6 - Validation retry: at KILOMETRAJE a text that is not a decimal      *)
(* number leaves the stored odometer field and the state unchanged; only   *)
(* a text that parses as a decimal number is stored and advances.          *)
C6_ValidationRetry ==
    [][ \A k \in Keys, text \in Texts :
          (conv[k] = KILOMETRAJE /\ kilometraje(k, text, 0)) =>
              IF EsDecimal(text)
              THEN /\ Draft(k)'["kilometraje"] = text
                   /\ conv'[k] = FOTO_PLACA
              ELSE /\ Draft(k)' = Draft(k)
                   /\ conv'[k] = KILOMETRAJE ]_vars

(* C8 - Upload failure degrades, never aborts: when the upload fails at a  *)
(* photo step the sentinel "Error al subir" is stored as the step's link   *)
(* and the conversation advances as on a successful upload; at the last    *)
(* photo step the persistence call is still made.                          *)
C8_UploadFailureDegrades ==
    [][ \A k \in Keys, t \in Times :
          /\ (conv[k] = FOTO_PLACA /\ foto_placa(k, t, FALSE, 0)) =>
                /\ Draft(k)'["link_foto_placa"] = ErrorAlSubir
                /\ conv'[k] = FOTO_KILOMETRAJE
          /\ (conv[k] = FOTO_KILOMETRAJE /\ foto_kilometraje(k, t, FALSE, 0)) =>
                /\ Draft(k)'["link_foto_kilometraje"] = ErrorAlSubir
                /\ conv'[k] = FOTO_ESTADO
          /\ \A t2 \in Times, appendOk \in BOOLEAN :
                (conv[k] = FOTO_ESTADO /\ foto_estado(k, t, t2, FALSE, appendOk, {}, 0)) =>
                    /\ Draft(k)'["link_foto_estado"] = ErrorAlSubir
                    /\ InvokedFor(k)'
                    /\ calls'[1].datos["link_foto_estado"] = ErrorAlSubir
                    /\ conv'[k] = END ]_vars

(* A report reaches the persistence call with all three uploads failed.    *)
C8_Witness ==
    \E k \in Keys :
        /\ InvokedFor(k)
        /\ CamposFila \subseteq DOMAIN calls[1].datos
        /\ \A f \in {"link_foto_placa", "link_foto_kilometraje", "link_foto_estado"} :
              calls[1].datos[f] = ErrorAlSubir

(* C9 - Persistence failure is terminal: when guardar_reporte_en_sheet     *)
(* returns failure the user is sent the failure notice, the conversation   *)
(* ends, and the call was the only one of its conversation.                *)
C9_PersistenceFailureTerminal ==
    [][ \A k \in Keys :
          (InvokedFor(k)' /\ ~calls'[1].exito) =>
              /\ ~invoked[k]
              /\ out'[Len(out')] = MsgError
              /\ conv'[k] = END ]_vars

(* C10 - Every terminal outcome produces exactly one message: a            *)
(* conversation reaches END only in a step that sends exactly one of the   *)
(* three terminal messages, and no conversation sends a second one.        *)
Terminales(msgs) == SelectSeq(msgs, LAMBDA m : m \in MsgTerminal)

C10_OneTerminalMessage ==
    /\ [](\A k \in Keys : Len(finals[k]) <= 1)
    /\ [][ \A k \in Keys :
             (conv[k] \in States /\ conv'[k] = END) =>
                 /\ Len(Terminales(out')) = 1
                 /\ finals'[k] = Terminales(out')
                 /\ (InvokedFor(k)' /\ calls'[1].exito) => finals'[k] = <<MsgExito>>
                 /\ (InvokedFor(k)' /\ ~calls'[1].exito) => finals'[k] = <<MsgError>>
                 /\ ~InvokedFor(k)' => finals'[k] = <<MsgCancelado>> ]_vars

(* A conversation ended by a failed persistence call, with its notice.     *)
C10_Witness ==
    \E k \in Keys :
        /\ conv[k] = END
        /\ InvokedFor(k)
        /\ ~calls[1].exito
        /\ finals[k] = <<MsgError>>

(* C7 - Distance invariant: a draft that holds an accepted pair of         *)
(* odometer readings holds distanceTraveled = odometerFinal -              *)
(* odometerInitial >= 0; a final reading below the initial one is          *)
(* rejected, the state and the draft staying as they were (no step that    *)
(* leaves the state or changes the draft is the handling of such a         *)
(* reading); and no appended record carries a negative or inconsistent     *)
(* distance.                                                               *)
DistanceOk(d) ==
    /\ "odometerInitial" \in DOMAIN d
    /\ "distanceTraveled" \in DOMAIN d
    /\ d["distanceTraveled"] = d["odometerFinal"] - d["odometerInitial"]
    /\ d["distanceTraveled"] >= 0

C7_DistanceInvariant ==
    /\ [](/\ "odometerFinal" \in DOMAIN odo.draft => DistanceOk(odo.draft)
          /\ \A i \in DOMAIN odo.appended : DistanceOk(odo.appended[i]))
    /\ [][ ( /\ odo.state = "ODOMETER_FINAL"
              /\ ~(odo'.state = "ODOMETER_FINAL" /\ odo'.draft = odo.draft) ) =>
                \A text \in OdoTexts :
                    ~( /\ OdoParses(text)
                       /\ OdoParse(text) < odo.draft["odometerInitial"]
                       /\ OdoFinal(text) ) ]_vars

(* A record appended with a positive distance.                             *)
C7_Witness ==
    /\ odo.appended # <<>>
    /\ odo.appended[1]["distanceTraveled"] > 0

(* C11 - Draft destroyed on completion: once foto_estado has finished,     *)
(* with the persistence call succeeded or failed, the user's draft holds   *)
(* no field while the conversation is idle.                                *)
C11_DraftDestroyedOnCompletion ==
    \A k \in Keys :
        (conv[k] = END /\ finals[k] \in {<<MsgExito>>, <<MsgError>>}) =>
            DOMAIN Draft(k) = {}

(* C12 - Exclusive ownership: while a conversation is in flight, no update *)
(* of another conversation (another chat of the same user included)        *)
(* changes or clears its draft.                                            *)
C12_ExclusiveOwnership ==
    [][ \A k \in Keys :
          (conv[k] \in States /\ update'.key # k) => Draft(k)' = Draft(k) ]_vars

(* C13 - Blocking calls do not stall other users: while the handler of one *)
(* user is inside subir_foto_a_drive or guardar_reporte_en_sheet, an       *)
(* update of another user can be processed.                                *)
C13_BlockingDoesNotStall ==
    \A k \in KeysTwoUsers :
        running.key = k =>
            \E k2 \in KeysTwoUsers :
                UserOf(k2) # UserOf(k) /\ ENABLED process_update(k2)

(* C14 - Unexpected failure during a step: when a handler raises, the      *)
(* exception is logged once by the error handler and the user is sent a    *)
(* generic error message, that is a last message which is none of the      *)
(* messages of the handlers.                                               *)
Mensajes == {MsgStart, MsgAyuda, MsgSelecciona, MsgNombre, MsgPlaca, MsgKilometraje,
             MsgFotoPlaca, MsgSubiendoPlaca, MsgFotoKm, MsgSubiendoKm, MsgFotoEstado,
             MsgSubiendoEstado, MsgGuardando, MsgExito, MsgError, MsgCancelado}

C14_UnexpectedFailure ==
    [][ errors' # <<>> =>
          /\ Len(errors') = 1
          /\ out' # <<>>
          /\ out'[Len(out')] \notin Mensajes ]_vars

(* C15 - Run to completion with bounded output: while a handler is in      *)
(* flight no other update is accepted, and the handling of one update      *)
(* delivers at most two messages.                                          *)
C15_RunToCompletion ==
    /\ [](Len(out) <= 2)
    /\ [][ running # Idle => update' = update ]_vars

(* C16 - Wrong-kind events are inert: a text in a photo state, a photo in  *)
(* a text state, or a command other than /cancelar in any conversation     *)
(* state leaves the states, the drafts and the files unchanged, makes no   *)
(* persistence call, and delivers at most the reply of /start or /ayuda,   *)
(* which are not handlers of the conversation.                             *)
WrongKind(s, kind) ==
    \/ s \in PhotoStates /\ kind = "text"
    \/ s \in TextStates /\ kind = "photo"
    \/ s \in States /\ kind \in {"/start", "/ayuda", "/reporte", "/otro"}

C16_WrongKindInert ==
    [][ \A k \in Keys :
          (update'.key = k /\ WrongKind(conv[k], update'.kind)) =>
              /\ conv' = conv
              /\ user_data' = user_data
              /\ fs' = fs
              /\ calls' = <<>>
              /\ \A i \in 1..Len(out') : out'[i] \in {MsgStart, MsgAyuda} ]_vars

(* A text was received in a photo state of a conversation whose draft      *)
(* holds a plate, and nothing was delivered.                               *)
C16_Witness ==
    \E k \in Keys :
        /\ ReceivedFrom(k, "text")
        /\ conv[k] \in PhotoStates
        /\ "placa" \in DOMAIN Draft(k)
        /\ out = <<>>

(* C17 - Local photo cleanup: when foto_estado has called the persistence  *)
(* operation, os.remove has been attempted on the path of every local      *)
(* photo key of the draft, whatever the outcome of persistence; a removed  *)
(* file is gone; and a removal that fails neither stops the handler nor    *)
(* changes its messages: the conversation ends with the message of the     *)
(* persistence outcome.                                                     *)
Locales(d) ==
    LET presentes == SelectSeq(ClavesLocales, LAMBDA key : key \in DOMAIN d)
    IN [i \in 1..Len(presentes) |-> d[presentes[i]]]

C17_LocalCleanup ==
    [][ \A k \in Keys :
          InvokedFor(k)' =>
              LET d == calls'[1].datos IN
              /\ [i \in 1..Len(rm') |-> rm'[i].path] = Locales(d)
              /\ \A i \in 1..Len(rm') : rm'[i].ok => rm'[i].path \notin fs'
              /\ errors' = <<>>
              /\ conv'[k] = END
              /\ out' = <<MsgSubiendoEstado, MsgGuardando,
                          IF calls'[1].exito THEN MsgExito ELSE MsgError>> ]_vars

(* A completion whose persistence call failed, where one removal failed    *)
(* and another succeeded.                                                  *)
C17_Witness ==
    \E k \in Keys :
        /\ InvokedFor(k)
        /\ ~calls[1].exito
        /\ Len(rm) = 3
        /\ ~rm[1].ok
        /\ rm[3].ok
        /\ conv[k] = END

(* C18 - Cross-user isolation: an update of one user leaves the            *)
(* conversation states and the draft of every other user unchanged, and    *)
(* the row persisted for a user holds only what that user sent.            *)
C18_CrossUserIsolation ==
    [][ \A k \in Keys :
          /\ update'.key[2] # k[2] =>
                /\ conv'[k] = conv[k]
                /\ user_data'[k[2]] = user_data[k[2]]
          /\ InvokedFor(k)' =>
                LET d == calls'[1].datos IN
                /\ CamposFila \subseteq DOMAIN d
                /\ d["tipo_jornada"] = TipoDe(TextoDe(k))
                /\ d["nombre"] = TextoDe(k)
                /\ d["placa"] = upper(TextoDe(k))
                /\ d["kilometraje"] = TextoDe(k) ]_vars

(* The report of u2 is persisted while the conversation of u1 is in        *)
(* flight with a draft of its own.                                         *)
C18_Witness ==
    /\ InvokedFor(<<"c2", "u2">>)
    /\ calls[1].exito
    /\ conv[<<"c1", "u1">>] = FOTO_ESTADO
    /\ user_data["u1"]["nombre"] = <<"a", "1">>

(* C19 - Completion ordering: the record handed to the persistence call    *)
(* is fully assembled and carries the timestamp the controller read from   *)
(* its clock; the call is made once in the step; and the confirmation or   *)
(* the failure notice comes after the "Guardando" message, last, and       *)
(* matches the outcome of the call.                                        *)
C19_CompletionOrdering ==
    [][ \A k \in Keys :
          InvokedFor(k)' =>
              LET d == calls'[1].datos IN
              /\ Len(calls') = 1
              /\ CamposFila \subseteq DOMAIN d
              /\ \E t \in Times : d["fecha_hora"] = strftime(t, FmtFecha)
              /\ Len(out') >= 2 /\ out'[2] = MsgGuardando
              /\ Terminales(out') \in
                    {<<>>, <<IF calls'[1].exito THEN MsgExito ELSE MsgError>>}
              /\ \A i \in 1..Len(out') : out'[i] \in MsgTerminal => i = Len(out') ]_vars

(* C20 - Plate normalisation: every text sent at PLACA is stored as its    *)
(* upper-case form and the conversation advances to KILOMETRAJE; the       *)
(* plate of a draft, of its photo file names and of the persisted row is   *)
(* the upper-case form of a text sent; and upper is idempotent.            *)
Placas == {upper(text) : text \in PlacaTexts}

ArchivosDe(prefijo, p) == {ruta_local(nombre_archivo(prefijo, p, t)) : t \in Times}

C20_PlateNormalisation ==
    /\ [](\A text \in PlacaTexts : upper(upper(text)) = upper(text))
    /\ [](\A k \in Keys :
            LET d == Draft(k) IN
            /\ "placa" \in DOMAIN d => d["placa"] \in Placas
            /\ "foto_placa_local" \in DOMAIN d =>
                   d["foto_placa_local"] \in ArchivosDe("placa_", d["placa"])
            /\ "foto_km_local" \in DOMAIN d =>
                   d["foto_km_local"] \in ArchivosDe("km_", d["placa"])
            /\ "foto_estado_local" \in DOMAIN d =>
                   d["foto_estado_local"] \in ArchivosDe("estado_", d["placa"]))
    /\ [][ \A k \in Keys :
             /\ \A text \in PlacaTexts :
                   (conv[k] = PLACA /\ placa(k, text, 0)) =>
                       /\ Draft(k)'["placa"] = upper(text)
                       /\ conv'[k] = KILOMETRAJE
             /\ InvokedFor(k)' =>
                   /\ calls'[1].datos["placa"] \in Placas
                   /\ calls'[1].exito => fila(calls'[1].datos)[4] = Draft(k)'["placa"] ]_vars

(* A row is persisted whose plate differs from the text that was sent.     *)
C20_Witness ==
    \E k \in Keys :
        /\ InvokedFor(k)
        /\ calls[1].exito
        /\ calls[1].datos["placa"] = upper(Inicio)
        /\ upper(Inicio) # Inicio

====
